---- MODULE Spec2Model ----
(***************************************************************************)
(* Model of annt's plotting module (src/src/annt/plot.py) and of the       *)
(* example driver (src/src/annt/examples/multilayer_perceptron_network.py).*)
(* The code is Python 2.7 (print statements, xrange, iterator.next()), so  *)
(* the model follows Python 2 semantics; in particular the loop variable   *)
(* of a list comprehension stays bound in the enclosing function.          *)
(*                                                                         *)
(* Every function is one action, except vary_params, which is a process   *)
(* of three kinds of step (entry, one simulation, the plots of a part).    *)
(* The calls a function makes on its                                      *)
(* collaborators (matplotlib, os, annt.net) are recorded, in order, in the *)
(* event list of the call; a nested call of a function of this repository  *)
(* is recorded by an entry event followed by the events of its body.       *)
(*                                                                         *)
(* Python's None is the empty tuple.  Every optional argument is a tuple:  *)
(* a title is <<"text">>, a path is <<directory, name, extension>>.        *)
(***************************************************************************)
EXTENDS Integers, Sequences, FiniteSets, TLC

VARIABLES last, figs, nraised, ncalls, default_hidden, vp

vars == <<last, figs, nraised, ncalls, default_hidden, vp>>

\* ------------------------------------------------------------------ bounds
MaxCalls == 2
MaxLen == 3
MaxSeries == 2
MaxDim == 2
MaxNodes == 2
MaxHidden == 2
MaxEpochs == 2
MaxIters == 2
MaxCols == 2

\* ------------------------------------------------------------ basic values
None == <<>>

Ev(c, a) == [call |-> c, arg |-> a]

Min(a, b) == IF a < b THEN a ELSE b

SetMax(S) == CHOOSE m \in S : \A n \in S : n <= m

SetMin(S) == CHOOSE m \in S : \A n \in S : m <= n

Range(s) == {s[i] : i \in 1..Len(s)}

Vals == {0, 1}

SeqsUpTo(S, n) == UNION {[1..k -> S] : k \in 1..n}

\* np.arange(a, b): the integers a, a + 1, ..., b - 1
Arange(a, b) == [i \in 1..(b - a) |-> a + i - 1]

Count(events, c) == Cardinality({i \in 1..Len(events) : events[i].call = c})

Index(events, c) == SetMin({i \in 1..Len(events) : events[i].call = c})

RECURSIVE Flatten(_)
Flatten(ss) == IF ss = <<>> THEN <<>> ELSE Head(ss) \o Flatten(Tail(ss))

\* ----------------------------------------------------------------- figures
\* pyplot's figure manager: the open figure numbers, the current one last.
\* A new figure gets the number max(open) + 1; plt.close() closes the
\* current figure.
NewFigure(fs) == Append(fs, IF fs = <<>> THEN 1 ELSE SetMax(Range(fs)) + 1)

CloseCurrent(fs) == IF fs = <<>> THEN fs ELSE SubSeq(fs, 1, Len(fs) - 1)

FigStep(fs, e) ==
    IF e.call \in {"plt.subplots", "plt.figure"} THEN NewFigure(fs)
    ELSE IF e.call = "plt.close" THEN CloseCurrent(fs)
    ELSE fs

\* the open figures after ev[i], ev[i + 1], ..., starting from fs
RECURSIVE ApplyFrom(_, _, _)
ApplyFrom(fs, ev, i) ==
    IF i > Len(ev) THEN fs ELSE ApplyFrom(FigStep(fs, ev[i]), ev, i + 1)

\* the open figures after a list of events: only the calls on the figure
\* manager count
ApplyFigs(fs, events) ==
    ApplyFrom(fs, SelectSeq(events, LAMBDA e : e.call \in {"plt.subplots", "plt.figure",
                                                         "plt.close"}), 1)

\* ----------------------------------------------------------------- plot.py
\* out_path.split('.')[-1]
Format(out_path) == out_path[Len(out_path)]

\* Finish with the figure shown whatever show is
Finish_AlwaysShows(out_path, show) ==
    <<Ev("fig.set_size_inches", <<1920, 1080>>)>>
    \o (IF out_path # None
        THEN <<Ev("plt.savefig", [path |-> out_path, format |-> Format(out_path)])>>
        ELSE <<>>)
    \o <<Ev("plt.show", None), Ev("plt.close", None)>>

\* Finish with the figure closed before it is shown
Finish_ClosesFirst(out_path, show) ==
    <<Ev("fig.set_size_inches", <<1920, 1080>>)>>
    \o (IF out_path # None
        THEN <<Ev("plt.savefig", [path |-> out_path, format |-> Format(out_path)])>>
        ELSE <<>>)
    \o <<Ev("plt.close", None)>>
    \o (IF show THEN <<Ev("plt.show", None)>> ELSE <<>>)

\* "Save the plot" / "Show the plot and close it after the user is done"
Finish(out_path, show) ==
    <<Ev("fig.set_size_inches", <<1920, 1080>>)>>
    \o (IF out_path # None
        THEN <<Ev("plt.savefig", [path |-> out_path, format |-> Format(out_path)])>>
        ELSE <<>>)
    \o (IF show THEN <<Ev("plt.show", None)>> ELSE <<>>)
    \o <<Ev("plt.close", None)>>

\* The x coordinates of one series: np.arange(1, x.shape[0] + 1), where x is
\* whatever the name x is bound to when the statement runs.
XCoords(x, y) == Arange(1, Len(x) + 1)

\* "Add the data": iteration i of the loop over the n plotted series.  x is
\* the current binding of the local name x.  With strict, the charting
\* library rejects coordinate vectors of different sizes and the exception
\* leaves plot_epoch.
RECURSIVE AddData(_, _, _, _, _, _)
AddData(y_series, y_errs, n, i, x, strict) ==
    IF i > n THEN [events |-> <<>>, raised |-> FALSE]
    ELSE LET y  == y_series[i]
             nx == XCoords(x, y)
             e  == IF y_errs # None
                   THEN Ev("ax.errorbar", [x |-> nx, y |-> y, yerr |-> y_errs[i]])
                   ELSE Ev("ax.scatter", [x |-> nx, y |-> y])
         IN  IF strict /\ Len(nx) # Len(y)
             THEN [events |-> <<e>>, raised |-> TRUE]
             ELSE LET rest == AddData(y_series, y_errs, n, i + 1, nx, strict)
                  IN  [events |-> <<e>> \o rest.events, raised |-> rest.raised]

PlotEpoch(a, strict) ==
    LET lens == {Len(a.y_series[i]) : i \in 1..Len(a.y_series)}
        \* the comprehension variable x is left bound to the last series
        x0   == a.y_series[Len(a.y_series)]
        n    == IF a.y_errs # None
                THEN Min(Len(a.y_series), Len(a.y_errs))
                ELSE Len(a.y_series)
        data == AddData(a.y_series, a.y_errs, n, 1, x0, strict)
        head == <<Ev("plot_epoch", a), Ev("plt.subplots", None)>>
                \o (IF a.title # None THEN <<Ev("plt.title", a.title)>> ELSE <<>>)
                \o (IF a.semilog THEN <<Ev("ax.set_yscale", <<"log">>)>> ELSE <<>>)
                \o (IF a.y_label # None THEN <<Ev("ax.set_ylabel", a.y_label)>> ELSE <<>>)
                \o <<Ev("ax.set_xlabel", <<"Epoch">>),
                     Ev("plt.xlim", <<1, SetMax(lens)>>)>>
    IN  IF data.raised
        THEN [events |-> head \o data.events, status |-> "raised"]
        ELSE [events |-> head \o data.events
                         \o (IF a.series_names # None
                             THEN <<Ev("plt.legend", [names |-> a.series_names,
                                                      loc |-> a.legend_location])>>
                             ELSE <<>>)
                         \o Finish(a.out_path, a.show),
              status |-> "returned"]

\* ndarray.reshape(shape) for a 1-D array and a 2-D shape, row-major (C order)
Reshape(v, shape) ==
    [r \in 1..shape[1] |-> [c \in 1..shape[2] |-> v[(r - 1) * shape[2] + c]]]

PlotWeights(a) ==
    LET titles == IF a.cluster_titles = None
                  THEN [i \in 1..Len(a.weights) |-> <<"Node", i - 1>>]
                  ELSE a.cluster_titles
        cell(i) == <<Ev("plt.subplot", <<a.nrows, a.ncols, i>>),
                     Ev("ax.set_title", titles[i]),
                     Ev("ax.imshow", Reshape(a.weights[i], a.shape)),
                     Ev("xaxis.set_visible", <<FALSE>>),
                     Ev("yaxis.set_visible", <<FALSE>>)>>
    IN  [events |-> <<Ev("plot_weights", a), Ev("plt.figure", None)>>
                    \o (IF a.title # None THEN <<Ev("fig.suptitle", a.title)>> ELSE <<>>)
                    \o Flatten([i \in 1..Len(a.weights) |-> cell(i)])
                    \o Finish(a.out_path, a.show),
         status |-> "returned"]

PlotSurface(a) ==
    [events |-> <<Ev("plot_surface", a), Ev("plt.figure", None),
                  Ev("fig.add_subplot", <<111, "3d">>),
                  Ev("ax.plot_surface", [x |-> a.x, y |-> a.y, z |-> a.z]),
                  Ev("fig.colorbar", None),
                  Ev("ax.view_init", <<58, 28>>)>>
                \o (IF a.title # None THEN <<Ev("plt.title", a.title)>> ELSE <<>>)
                \o (IF a.x_label # None THEN <<Ev("ax.set_xlabel", a.x_label)>> ELSE <<>>)
                \o (IF a.y_label # None THEN <<Ev("ax.set_ylabel", a.y_label)>> ELSE <<>>)
                \o (IF a.z_label # None THEN <<Ev("ax.set_zlabel", a.z_label)>> ELSE <<>>)
                \o Finish(a.out_path, a.show),
     status |-> "returned"]

\* sorted(seq) for a sequence of distinct numbers taken from a set
RECURSIVE SortedSet(_)
SortedSet(S) == IF S = {} THEN <<>>
                ELSE LET m == SetMin(S) IN <<m>> \o SortedSet(S \ {m})

\* key=lambda x: (x[0], x[1]): tuples compare lexicographically
KeyLess(p, q) == p[1] < q[1] \/ (p[1] = q[1] /\ p[2] < q[2])

\* insertion of t into a sorted list after every element not greater than it
\* (sorted() is stable)
RECURSIVE Insert(_, _)
Insert(t, s) == IF s = <<>> THEN <<t>>
                ELSE IF KeyLess(t, Head(s)) THEN <<t>> \o s
                ELSE <<Head(s)>> \o Insert(t, Tail(s))

RECURSIVE Sorted(_)
Sorted(data) == IF data = <<>> THEN <<>>
                ELSE Insert(data[Len(data)], Sorted(SubSeq(data, 1, Len(data) - 1)))

\* np.meshgrid(xi, yi) with the default 'xy' indexing: both results have
\* len(yi) rows and len(xi) columns, xim[r][c] = xi[c] and yim[r][c] = yi[r]
Meshgrid(xi, yi) ==
    [xim |-> [r \in 1..Len(yi) |-> [c \in 1..Len(xi) |-> xi[c]]],
     yim |-> [r \in 1..Len(yi) |-> [c \in 1..Len(xi) |-> yi[r]]]]

\* the shape of a 2-D array
Shape(m) == <<Len(m), IF m = <<>> THEN 0 ELSE Len(m[1])>>

MakeGrid(data) ==
    LET s  == Sorted(data)
        x  == [i \in 1..Len(s) |-> s[i][1]]
        y  == [i \in 1..Len(s) |-> s[i][2]]
        z  == [i \in 1..Len(s) |-> s[i][3]]
        xi == SortedSet(Range(x))
        yi == SortedSet(Range(y))
        g  == Meshgrid(xi, yi)
        zi == Reshape(z, Shape(g.xim))
    IN  [xim |-> g.xim, yim |-> g.yim, zi |-> zi]

\* ------------------------------------- examples/multilayer_perceptron_network.py
\* array * 100
Scale100(v) == [i \in 1..Len(v) |-> v[i] * 100]

\* MainShape with the output layer appended to the caller's list in place
MainShape_InPlace(ncols, hidden_layers) ==
    [shape |-> <<ncols>> \o hidden_layers \o <<10>>,
     hidden_layers |-> hidden_layers \o <<10>>]

\* "Create the network": the shape handed to the network and the state in
\* which the statement leaves the list object bound to hidden_layers
MainShape(ncols, hidden_layers) ==
    [shape |-> <<ncols>> \o hidden_layers \o <<10>>,
     hidden_layers |-> hidden_layers]

\* main's call of plot_epoch
MainPlotArgs(train_results, test_results) ==
    [y_series |-> <<Scale100(train_results), Scale100(test_results)>>,
     series_names |-> <<"Train", "Test">>, y_errs |-> None,
     y_label |-> <<"Accuracy [%]">>, title |-> <<"MLP - Example">>,
     semilog |-> FALSE, legend_location |-> "upper left",
     out_path |-> None, show |-> TRUE]

\* Main with the plot made before the network is simulated
Main_PlotsFirst(a, hl, run) ==
    LET s    == MainShape(a.train_data.cols, hl)
        net  == Ev("MultilayerPerception",
                   [shape |-> s.shape, bias |-> a.bias,
                    learning_rate |-> a.learning_rate,
                    min_weight |-> a.min_weight, max_weight |-> a.max_weight,
                    hidden_activation_type |-> a.hidden_activation_type])
        sim  == Ev("net.run", [train_data |-> a.train_data, test_data |-> a.test_data,
                               nepochs |-> a.nepochs, verbose |-> a.verbose])
        p    == IF a.plot
                THEN PlotEpoch(MainPlotArgs(run.train, run.test), TRUE)
                ELSE [events |-> <<>>, status |-> "returned"]
    IN  [events |-> <<Ev("main", a), net>> \o p.events \o <<sim>>,
         status |-> p.status,
         result |-> IF p.status = "returned"
                    THEN <<Scale100(run.train), Scale100(run.test)>> ELSE None,
         hidden_layers |-> s.hidden_layers]

\* main(**a) with the parameter hidden_layers bound to the list hl; run is the
\* pair of per-epoch accuracies that net.run returns
Main(a, hl, run) ==
    LET s    == MainShape(a.train_data.cols, hl)
        net  == Ev("MultilayerPerception",
                   [shape |-> s.shape, bias |-> a.bias,
                    learning_rate |-> a.learning_rate,
                    min_weight |-> a.min_weight, max_weight |-> a.max_weight,
                    hidden_activation_type |-> a.hidden_activation_type])
        sim  == Ev("net.run", [train_data |-> a.train_data, test_data |-> a.test_data,
                               nepochs |-> a.nepochs, verbose |-> a.verbose])
        p    == IF a.plot
                THEN PlotEpoch(MainPlotArgs(run.train, run.test), TRUE)
                ELSE [events |-> <<>>, status |-> "returned"]
    IN  [events |-> <<Ev("main", a), net, sim>> \o p.events,
         status |-> p.status,
         result |-> IF p.status = "returned"
                    THEN <<Scale100(run.train), Scale100(run.test)>> ELSE None,
         hidden_layers |-> s.hidden_layers]

\* the largest k with k * k <= n
Isqrt(n) == CHOOSE k \in 0..n : k * k <= n /\ n < (k + 1) * (k + 1)

RECURSIVE Sum(_)
Sum(v) == IF v = <<>> THEN 0 ELSE Head(v) + Sum(Tail(v))

Column(rows, j) == [i \in 1..Len(rows) |-> rows[i][j]]

\* np.mean(rows, 0) and np.std(rows, 0), to integer precision
Mean(rows, ncols) ==
    [j \in 1..ncols |-> Sum(Column(rows, j)) \div Len(rows)]

Std(rows, ncols) ==
    [j \in 1..ncols |->
        LET c  == Column(rows, j)
            sq == [i \in 1..Len(c) |-> c[i] * c[i]]
        IN  Isqrt(Len(c) * Sum(sq) - Sum(c) * Sum(c)) \div Len(c)]

\* the keyword arguments bulk hands to main
BulkMainArgs(a) ==
    [train_data |-> a.train_data, test_data |-> a.test_data,
     nepochs |-> a.nepochs, plot |-> FALSE, verbose |-> FALSE,
     bias |-> a.bias, learning_rate |-> a.learning_rate,
     min_weight |-> a.min_weight, max_weight |-> a.max_weight,
     hidden_activation_type |-> a.hidden_activation_type]

\* bulk's call of plot_epoch
BulkPlotArgs(train_mean, train_std, test_mean, test_std) ==
    [y_series |-> <<train_mean, test_mean>>,
     series_names |-> <<"Train", "Test">>, y_errs |-> <<train_std, test_std>>,
     y_label |-> <<"Accuracy [%]">>, title |-> <<"MLP - Stats Example">>,
     semilog |-> FALSE, legend_location |-> "upper left",
     out_path |-> None, show |-> TRUE]

\* bulk(niters, nepochs, verbose, plot, **kargs) with main's hidden_layers
\* bound to hl; runs[i] is what net.run returns in iteration i
Bulk(a, hl, runs) ==
    LET iter(i) == (IF a.verbose
                    THEN <<Ev("print", <<"Executing iteration", i, a.niters>>)>>
                    ELSE <<>>)
                   \o Main(BulkMainArgs(a), hl, runs[i]).events
        train_results == [i \in 1..a.niters |-> Main(BulkMainArgs(a), hl, runs[i]).result[1]]
        test_results  == [i \in 1..a.niters |-> Main(BulkMainArgs(a), hl, runs[i]).result[2]]
        train_mean == Mean(train_results, a.nepochs)
        test_mean  == Mean(test_results, a.nepochs)
        train_std  == Std(train_results, a.nepochs)
        test_std   == Std(test_results, a.nepochs)
        p == IF a.plot
             THEN PlotEpoch(BulkPlotArgs(train_mean, train_std, test_mean, test_std), TRUE)
             ELSE [events |-> <<>>, status |-> "returned"]
    IN  [events |-> <<Ev("bulk", [niters |-> a.niters, nepochs |-> a.nepochs,
                                  verbose |-> a.verbose, plot |-> a.plot,
                                  hidden_layers |-> hl])>>
                    \o Flatten([i \in 1..a.niters |-> iter(i)]) \o p.events,
         status |-> p.status,
         result |-> IF p.status = "returned"
                    THEN <<<<train_mean, train_std>>, <<test_mean, test_std>>>>
                    ELSE None]

\* [int(x) for x in np.linspace(a, b, n)]
Linspace(a, b, n) == [i \in 1..n |-> a + ((i - 1) * (b - a)) \div (n - 1)]

\* the hidden-layer shapes of the three parts of vary_params
Shapes(part) ==
    IF part = 1 THEN [i \in 1..10 |-> <<Linspace(25, 250, 10)[i]>>]
    ELSE IF part = 2 THEN [i \in 1..10 |-> <<250, Linspace(10, 100, 10)[i]>>]
    ELSE [i \in 1..10 |-> <<250, 100, Linspace(5, 50, 10)[i]>>]

PartName(part) == IF part = 1 THEN "single" ELSE IF part = 2 THEN "double" ELSE "triple"

PartTitle(part) == IF part = 1 THEN "Single Hidden Layer"
                   ELSE IF part = 2 THEN "Double Hidden Layer" ELSE "Triple Hidden Layer"

\* MakeOutputDir with the OSError let out of vary_params
MakeOutputDir_Propagates(out_dir, fails) ==
    [events |-> <<Ev("os.makedirs", [path |-> out_dir, raised |-> fails])>>,
     propagate |-> fails]

\* "Make the output directory": os.makedirs inside try / except OSError: pass.
\* fails says whether os.makedirs raises OSError; propagate says whether an
\* exception leaves vary_params.
MakeOutputDir(out_dir, fails) ==
    [events |-> <<Ev("os.makedirs", [path |-> out_dir, raised |-> fails])>>,
     propagate |-> FALSE]

\* the arguments of the bulk call for one shape
VaryBulkArgs(a, data) ==
    [train_data |-> data.train, test_data |-> data.test, plot |-> FALSE,
     nepochs |-> a.nepochs, niters |-> a.niters, verbose |-> FALSE,
     bias |-> 1, learning_rate |-> <<1, 1000>>, min_weight |-> -1,
     max_weight |-> 1, hidden_activation_type |-> "sigmoid"]

\* the calls vary_params makes before its first part; mk is the outcome of
\* making the output directory
VaryHead(a, mk) ==
    <<Ev("vary_params", a), Ev("mnist_data", None),
      Ev("one_hot", <<"train_labels", 10>>),
      Ev("one_hot", <<"test_labels", 10>>)>> \o mk.events

PartBanner(part) == IF part = 1 THEN "Varying one layer"
                    ELSE IF part = 2 THEN "Varying two layers" ELSE "Varying three layers"

\* iteration i of the loop over the shapes of a part; b is the outcome of the
\* bulk call
VarySim(part, i, b) ==
    (IF i = 1 THEN <<Ev("print", <<PartBanner(part)>>)>> ELSE <<>>)
    \o <<Ev("print", <<"Executing iteration", i, Len(Shapes(part))>>)>>
    \o b.events

\* a plot_epoch call of vary_params
VaryPlotArgs(a, part, y, errs, kind, what) ==
    [y_series |-> y,
     series_names |-> [i \in 1..Len(Shapes(part)) |-> <<"Shape =", Shapes(part)[i]>>],
     title |-> <<"MLP", what, "10 Iterations", PartTitle(part)>>,
     y_errs |-> errs, y_label |-> <<"Accuracy [%]">>,
     out_path |-> a.out_dir \o <<PartName(part), kind, "png">>,
     semilog |-> FALSE, legend_location |-> "upper left", show |-> a.show_plot]

\* "Make training plot" and "Make testing plot" of a part; both plots take
\* train_stds as their errors
VaryPlots(a, part, train_results, train_stds, test_results) ==
    PlotEpoch(VaryPlotArgs(a, part, train_results, train_stds, "train", "Training"),
              TRUE).events
    \o PlotEpoch(VaryPlotArgs(a, part, test_results, train_stds, "test", "Testing"),
                 TRUE).events

\* ------------------------------------------------------------------ inputs
Opt(v) == {None, v}

\* a series of n data points
Series(n) == [i \in 1..n |-> 10 * i]

SeriesSet == {Series(n) : n \in 1..MaxLen}

\* one error per series per data point
Errs(y_series) == [i \in 1..Len(y_series) |-> [j \in 1..Len(y_series[i]) |-> 1]]

Path == <<"out", "figure", "png">>

Data(name, cols) == [name |-> name, cols |-> cols]

NodeCounts == {50, 100}

HiddenLists == {<<>>} \cup SeqsUpTo(NodeCounts, MaxHidden)

\* the per-epoch accuracies net.run can return: one value per epoch
Curves(n) == [1..n -> Vals]

Reverse(s) == [i \in 1..Len(s) |-> s[Len(s) + 1 - i]]

RunOutcomes(n) == [train : Curves(n), test : Curves(n)]

BulkOutcomes(n) == {[train |-> c, test |-> Reverse(c)] : c \in Curves(n)}

\* the (x, y, z) triples of the full grid xs x ys, x-major, with z drawn by f
GridData(xs, ys, f) ==
    Flatten([i \in 1..Len(xs) |-> [j \in 1..Len(ys) |-> <<xs[i], ys[j], f[<<i, j>>]>>]])

Reorder(d, order) ==
    IF order = "reversed" THEN Reverse(d)
    ELSE IF order = "rotated" THEN Tail(d) \o <<Head(d)>>
    ELSE d

DefaultHyper ==
    [bias |-> 1, learning_rate |-> <<1, 1000>>, min_weight |-> -1,
     max_weight |-> 1, hidden_activation_type |-> "sigmoid"]

\* ------------------------------------------------------------------- state
\* last:  the call in progress at its return (or raise): function, arguments,
\*        events, outcome, the open figures at entry, and the caller's
\*        hidden_layers list before and after
\* figs:  pyplot's open figures
\* nraised: the number of calls that ended by an exception
\* ncalls: the number of calls made
\* default_hidden: the list object that is main's default for hidden_layers
\* vp:    the locals of a running vary_params: the part, the loop index and
\*        the result arrays
Idle == [fn |-> "none", args |-> None, events |-> <<>>, status |-> "idle",
         result |-> None, figs_before |-> <<>>, hidden_before |-> None,
         hidden_after |-> None]

Init ==
    /\ last = Idle
    /\ figs = <<>>
    /\ nraised = 0
    /\ ncalls = 0
    /\ default_hidden = <<100>>
    /\ vp = None

CanCall == last.status = "idle" /\ ncalls < MaxCalls

Complete(fn, a, r, result, hb, ha) ==
    /\ last' = [fn |-> fn, args |-> a, events |-> r.events, status |-> r.status,
                result |-> result, figs_before |-> figs, hidden_before |-> hb,
                hidden_after |-> ha]
    /\ figs' = ApplyFigs(figs, r.events)
    /\ nraised' = nraised + (IF r.status = "raised" THEN 1 ELSE 0)
    /\ ncalls' = ncalls + 1
    /\ vp' = None

plot_epoch ==
    /\ CanCall
    /\ \E y_series \in SeqsUpTo(SeriesSet, MaxSeries), with_errs \in BOOLEAN,
          series_names \in Opt(<<"Train", "Test">>), y_label \in Opt(<<"Accuracy [%]">>),
          title \in Opt(<<"Plot">>), semilog \in BOOLEAN, out_path \in Opt(Path),
          show \in BOOLEAN, strict \in BOOLEAN :
         LET a == [y_series |-> y_series, series_names |-> series_names,
                   y_errs |-> IF with_errs THEN Errs(y_series) ELSE None,
                   y_label |-> y_label, title |-> title, semilog |-> semilog,
                   legend_location |-> "best", out_path |-> out_path, show |-> show]
         IN  Complete("plot_epoch", a, PlotEpoch(a, strict), None, None, None)
    /\ UNCHANGED default_hidden

plot_weights ==
    /\ CanCall
    /\ \E n \in 1..MaxNodes, nrows \in 1..MaxNodes, ncols \in 1..MaxNodes,
          shape \in {<<1, 2>>, <<2, 1>>}, title \in Opt(<<"Weights">>),
          named \in BOOLEAN, out_path \in Opt(Path), show \in BOOLEAN :
         /\ n <= nrows * ncols
         /\ \E weights \in [1..n -> {<<0, 1>>, <<1, 0>>}] :
              LET a == [weights |-> weights, nrows |-> nrows, ncols |-> ncols,
                        shape |-> shape, title |-> title,
                        cluster_titles |-> IF named
                                           THEN [i \in 1..n |-> <<"Cluster", i>>]
                                           ELSE None,
                        out_path |-> out_path, show |-> show]
              IN  Complete("plot_weights", a, PlotWeights(a), None, None, None)
    /\ UNCHANGED default_hidden

make_grid ==
    /\ CanCall
    /\ \E nx \in 1..MaxDim, ny \in 1..MaxDim,
          order \in {"sorted", "reversed", "rotated"} :
         \E f \in [(1..nx) \X (1..ny) -> Vals] :
            LET data == Reorder(GridData([i \in 1..nx |-> i], [j \in 1..ny |-> 10 * j], f),
                                order)
                r    == [events |-> <<>>, status |-> "returned"]
            IN  Complete("make_grid", data, r, MakeGrid(data), None, None)
    /\ UNCHANGED default_hidden

plot_surface ==
    /\ CanCall
    /\ \E f \in [(1..2) \X (1..1) -> Vals], x_label \in Opt(<<"x">>),
          y_label \in Opt(<<"y">>), z_label \in Opt(<<"z">>),
          title \in Opt(<<"Surface">>), out_path \in Opt(Path), show \in BOOLEAN :
         LET g == MakeGrid(GridData(<<1, 2>>, <<10>>, f))
             a == [x |-> g.xim, y |-> g.yim, z |-> g.zi, x_label |-> x_label,
                   y_label |-> y_label, z_label |-> z_label, title |-> title,
                   out_path |-> out_path, show |-> show]
         IN  Complete("plot_surface", a, PlotSurface(a), None, None, None)
    /\ UNCHANGED default_hidden

main ==
    /\ CanCall
    /\ \E cols \in 1..MaxCols, nepochs \in 1..MaxEpochs, plot \in BOOLEAN,
          verbose \in BOOLEAN, defaulted \in BOOLEAN, given \in HiddenLists :
         \E run \in RunOutcomes(nepochs) :
            LET hl == IF defaulted THEN default_hidden ELSE given
                a  == [train_data |-> Data("train", cols), test_data |-> Data("test", cols),
                       nepochs |-> nepochs, plot |-> plot, verbose |-> verbose,
                       bias |-> DefaultHyper.bias,
                       learning_rate |-> DefaultHyper.learning_rate,
                       min_weight |-> DefaultHyper.min_weight,
                       max_weight |-> DefaultHyper.max_weight,
                       hidden_activation_type |-> DefaultHyper.hidden_activation_type,
                       defaulted |-> defaulted, run |-> run]
                r  == Main(a, hl, run)
            IN  /\ defaulted => given = <<>>
                /\ Complete("main", a, r, r.result, hl, r.hidden_layers)
                /\ default_hidden' = IF defaulted THEN r.hidden_layers ELSE default_hidden

bulk ==
    /\ CanCall
    /\ \E nepochs \in 1..MaxEpochs, niters \in 1..MaxIters, plot \in BOOLEAN,
          verbose \in BOOLEAN :
         \E runs \in [1..niters -> BulkOutcomes(nepochs)] :
            LET a == [train_data |-> Data("train", 1), test_data |-> Data("test", 1),
                      nepochs |-> nepochs, niters |-> niters, plot |-> plot,
                      verbose |-> verbose, bias |-> DefaultHyper.bias,
                      learning_rate |-> DefaultHyper.learning_rate,
                      min_weight |-> DefaultHyper.min_weight,
                      max_weight |-> DefaultHyper.max_weight,
                      hidden_activation_type |-> DefaultHyper.hidden_activation_type,
                      runs |-> runs]
                r == Bulk(a, default_hidden, runs)
            IN  Complete("bulk", a, r, r.result, default_hidden, default_hidden)
    /\ UNCHANGED default_hidden

\* vary_params up to its first part: load the data, make the output directory
vary_params ==
    /\ CanCall
    /\ \E nepochs \in 1..MaxEpochs, niters \in 1..MaxIters, show_plot \in BOOLEAN,
          mkdir_fails \in BOOLEAN, cols \in 1..MaxCols :
         \E run \in BulkOutcomes(nepochs) :
            LET a  == [out_dir |-> <<"out">>, nepochs |-> nepochs, niters |-> niters,
                       show_plot |-> show_plot, mkdir_fails |-> mkdir_fails,
                       data |-> [train |-> Data("train", cols), test |-> Data("test", cols)],
                       runs |-> [i \in 1..niters |-> run]]
                mk == MakeOutputDir(a.out_dir, mkdir_fails)
            IN  /\ last' = [fn |-> "vary_params", args |-> a, events |-> VaryHead(a, mk),
                            status |-> IF mk.propagate THEN "raised" ELSE "running",
                            result |-> None, figs_before |-> figs,
                            hidden_before |-> None, hidden_after |-> None]
                /\ nraised' = nraised + (IF mk.propagate THEN 1 ELSE 0)
    /\ vp' = [part |-> 1, i |-> 1, train_results |-> <<>>, train_stds |-> <<>>,
              test_results |-> <<>>, test_stds |-> <<>>]
    /\ ncalls' = ncalls + 1
    /\ UNCHANGED <<figs, default_hidden>>

Running == last.fn = "vary_params" /\ last.status = "running"

\* vary_params: one iteration of the loop over the shapes of the current part
vary_sim ==
    /\ Running
    /\ vp.i <= Len(Shapes(vp.part))
    /\ \E b \in {Bulk(VaryBulkArgs(last.args, last.args.data), Shapes(vp.part)[vp.i],
                      last.args.runs)} :
         /\ last' = [last EXCEPT !.events = @ \o VarySim(vp.part, vp.i, b)]
         /\ vp' = [vp EXCEPT !.i = @ + 1,
                             !.train_results = Append(@, b.result[1][1]),
                             !.train_stds = Append(@, b.result[1][2]),
                             !.test_results = Append(@, b.result[2][1]),
                             !.test_stds = Append(@, b.result[2][2])]
         /\ figs' = ApplyFigs(figs, b.events)
    /\ UNCHANGED <<nraised, ncalls, default_hidden>>

\* vary_params: the two plots of the current part, then the next part or
\* the return
vary_plots ==
    /\ Running
    /\ vp.i > Len(Shapes(vp.part))
    /\ \E ev \in {VaryPlots(last.args, vp.part, vp.train_results, vp.train_stds,
                            vp.test_results)} :
         /\ last' = [last EXCEPT !.events = @ \o ev,
                                 !.status = IF vp.part = 3 THEN "returned" ELSE "running"]
         /\ figs' = ApplyFigs(figs, ev)
    /\ vp' = [part |-> vp.part + 1, i |-> 1, train_results |-> <<>>,
              train_stds |-> <<>>, test_results |-> <<>>, test_stds |-> <<>>]
    /\ UNCHANGED <<nraised, ncalls, default_hidden>>

\* the call is over: control is back in the caller
Return ==
    /\ last.status \in {"returned", "raised"}
    /\ last' = Idle
    /\ vp' = None
    /\ UNCHANGED <<figs, nraised, ncalls, default_hidden>>

Next ==
    \/ plot_epoch
    \/ plot_weights
    \/ make_grid
    \/ plot_surface
    \/ main
    \/ bulk
    \/ vary_params
    \/ vary_sim
    \/ vary_plots
    \/ Return

Spec == Init /\ [][Next]_vars

\* ------------------------------------------------------------------ claims
Plotters == {"plot_epoch", "plot_weights", "plot_surface"}

Returned == last.status = "returned"

Calls(c) == SelectSeq(last.events, LAMBDA e : e.call = c)

OneToN(n) == [k \in 1..n |-> k]

\* C1: for an input that is the full cross product of its x and y values,
\* make_grid returns three arrays of equal shape and every cell's triple
\* (xim[r][c], yim[r][c], zi[r][c]) is one of the input triples.
C1_GridKeepsTriples ==
    last.fn = "make_grid" =>
        LET g == last.result
        IN  /\ Shape(g.xim) = Shape(g.yim)
            /\ Shape(g.xim) = Shape(g.zi)
            /\ \A r \in 1..Len(g.zi) : \A c \in 1..Len(g.zi[r]) :
                  <<g.xim[r][c], g.yim[r][c], g.zi[r][c]>> \in Range(last.args)

\* C2: plot_epoch plots every series y against the x coordinates
\* 1, 2, ..., len(y), also when the series have different lengths.
C2_XPerItem ==
    last.fn = "plot_epoch" =>
        \A i \in 1..Len(last.events) :
            last.events[i].call \in {"ax.scatter", "ax.errorbar"} =>
                last.events[i].arg.x = OneToN(Len(last.events[i].arg.y))

C4_ShapeFromHidden ==
    /\ default_hidden = <<100>>
    /\ last.fn = "main" =>
          LET shape == Calls("MultilayerPerception")[1].arg.shape
              hl    == last.hidden_before
          IN  /\ Len(shape) = Len(hl) + 2
              /\ shape[1] = last.args.train_data.cols
              /\ \A i \in 1..Len(hl) : shape[i + 1] = hl[i]
              /\ shape[Len(shape)] = 10
              /\ last.hidden_after = hl
              /\ last.args.defaulted => hl = <<100>>

C4_Witness ==
    /\ last.fn = "main"
    /\ last.args.defaulted
    /\ ncalls = 2
    /\ Calls("MultilayerPerception")[1].arg.shape
         = <<last.args.train_data.cols, 100, 10>>

\* C5: when os.makedirs raises OSError, vary_params calls it once only, lets
\* no exception out, and makes every bulk call (one per shape, in order) and
\* every plot_epoch call just as when the directory was created.
ExpectedHidden ==
    << <<25>>, <<50>>, <<75>>, <<100>>, <<125>>, <<150>>, <<175>>, <<200>>,
       <<225>>, <<250>>,
       <<250, 10>>, <<250, 20>>, <<250, 30>>, <<250, 40>>, <<250, 50>>,
       <<250, 60>>, <<250, 70>>, <<250, 80>>, <<250, 90>>, <<250, 100>>,
       <<250, 100, 5>>, <<250, 100, 10>>, <<250, 100, 15>>, <<250, 100, 20>>,
       <<250, 100, 25>>, <<250, 100, 30>>, <<250, 100, 35>>, <<250, 100, 40>>,
       <<250, 100, 45>>, <<250, 100, 50>> >>

ExpectedFiles ==
    << <<"single", "train">>, <<"single", "test">>, <<"double", "train">>,
       <<"double", "test">>, <<"triple", "train">>, <<"triple", "test">> >>

C6_ConstructRunPlot ==
    last.fn = "main" =>
        /\ Len(Calls("MultilayerPerception")) = 1
        /\ Len(Calls("net.run")) = 1
        /\ Index(last.events, "MultilayerPerception") < Index(last.events, "net.run")
        /\ Len(Calls("plot_epoch")) = (IF last.args.plot THEN 1 ELSE 0)
        /\ last.args.plot =>
              Index(last.events, "net.run") < Index(last.events, "plot_epoch")
        /\ Returned
        /\ last.result = << [i \in 1..last.args.nepochs |-> last.args.run.train[i] * 100],
                            [i \in 1..last.args.nepochs |-> last.args.run.test[i] * 100] >>

C6_Witness ==
    /\ last.fn = "main"
    /\ last.args.plot
    /\ Returned
    /\ Len(Calls("plot_epoch")) = 1
    /\ last.result[1] # last.result[2]

\* C7: a plotter call that returns normally creates exactly one figure and
\* closes exactly one, saving (if out_path is not None) before showing (if
\* show) before closing; the open figures after it are those before it, so
\* as long as every call returned normally no figure is left open.
C7_OneFigurePerCall ==
    /\ nraised = 0 => figs = <<>>
    /\ (last.fn \in Plotters /\ Returned) =>
          LET ev     == last.events
              n      == Len(ev)
              nsave  == IF last.args.out_path # None THEN 1 ELSE 0
              nshow  == IF last.args.show THEN 1 ELSE 0
          IN  /\ Count(ev, "plt.subplots") + Count(ev, "plt.figure") = 1
              /\ Count(ev, "plt.close") = 1
              /\ Count(ev, "plt.savefig") = nsave
              /\ Count(ev, "plt.show") = nshow
              /\ ev[n].call = "plt.close"
              /\ nshow = 1 => ev[n - 1].call = "plt.show"
              /\ nsave = 1 => ev[n - 1 - nshow].call = "plt.savefig"
              /\ figs = last.figs_before

C7_Witness ==
    /\ last.fn \in Plotters
    /\ Returned
    /\ last.args.out_path # None
    /\ last.args.show
    /\ last.figs_before # <<>>
    /\ figs = last.figs_before

====
